---- MODULE Spec2Model ----
(***************************************************************************)
(* The non-blocking buzzer pattern sequencer of the RADION examples        *)
(* (class IndustrialBuzzer of Tft_Buzzer_Buttons.ino): playPattern, stop,  *)
(* update and isActive, driven by the millisecond clock millis() and       *)
(* writing to one LEDC PWM channel.                                        *)
(*                                                                         *)
(* Time only passes between the operations (action Delay): the two reads  *)
(* of millis() in update() give the same value.  millis() and              *)
(* noteStartTime are 32-bit                                                *)
(* unsigned, kept as a pair <<high half, low half>> of 16-bit halves;      *)
(* patternIndex is 8-bit unsigned.                                         *)
(***************************************************************************)
EXTENDS Integers, Sequences, FiniteSets, TLC

VARIABLES
  buzzer,     \* the IndustrialBuzzer object: its private fields
  ledc,       \* the PWM channel: last tone frequency and last duty written
  millis,     \* the 32-bit millisecond clock
  emitted,    \* the commands the last operation wrote to the channel
  lastOp,     \* the last step taken: "boot", "play", "stop", "update", "delay"
  argPattern, \* the pattern given to the last playPattern (Null before any)
  argRepeat,  \* the repeat flag given to the last playPattern
  upMs,       \* milliseconds since the first state, not wrapped
  startMs,    \* upMs at the last playPattern
  pollGap,    \* 0: update has run in this millisecond (or playPattern did);
              \* 1: not yet in this millisecond; 2: a millisecond went unpolled
  stopRun,    \* stop() calls made directly one after the other (at most 2)
  cancelled,  \* a caller has called stop() since the last playPattern
  prevActive, \* isActive() as it was before the last step
  heap,       \* the notes the memory holds after the end of a table
  noteMs,     \* upMs when noteStartTime was last set
  played,     \* the first MaxPlayed notes written to the channel since the
              \* last playPattern, each as the commands written for it
  menu,       \* the menu of the TFT sketch: selectedItem and scrollOffset
  fell,       \* the buttons that fell in the last handleButtons(), or the
              \* character the last handleSerialInput() read
  state,      \* the SystemState of the NTP clock sketch (its link fields)
  targetTime, \* the clock value after which the NTP clock display is updated
  infoUpdateCounter, \* display updates counted towards the next redraw of
              \* the info bar and the bottom bar
  seen        \* what has happened in the NTP clock sketch: the last Ethernet
              \* event, reconnect attempts and display updates

vars == <<buzzer, ledc, millis, emitted, lastOp, argPattern, argRepeat,
          upMs, startMs, pollGap, stopRun, cancelled, prevActive,
          heap, noteMs, played, menu, fell,
          state, targetTime, infoUpdateCounter, seen>>

\* The variables of the NTP clock sketch.
ntpVars == <<state, targetTime, infoUpdateCounter, seen>>

\* The variables of the buzzer sketches, but for the clock and lastOp.
buzzerVars == <<buzzer, ledc, emitted, argPattern, argRepeat, startMs, pollGap,
                stopRun, cancelled, prevActive, heap, noteMs, played, menu,
                fell>>

----------------------------------------------------------------------------
(* Bounds of the exploration *)

\* Milliseconds of run time explored.
MaxTime == 9

\* Longest single wait between two operations, in milliseconds.
MaxDelta == 4

\* The clock starts at 0, or this many milliseconds before it wraps.
WrapLead == 2

\* Notes written to the channel that are kept in the record of a playback.
MaxPlayed == 6

\* Milliseconds of run time a blocking serial command may run up to.
MaxSerialTime == 13

\* Seconds of run time of the NTP clock sketch explored.
MaxNtpTime == 46

\* Longest time one pass of the NTP clock sketch's loop() takes, in seconds.
MaxLoopTime == 1

\* reconnectAttempts starts at 0, or this many attempts before it wraps.
AttemptsLead == 2

\* Notes of memory after a table that are told apart; further on the memory
\* reads as these again.
HeapLen == 1

----------------------------------------------------------------------------
(* Program constants *)

FREQ_LOW == 800
FREQ_MEDIUM == 1500
FREQ_HIGH == 2500
FREQ_CRITICAL == 3500
VOLUME_LOW == 64
VOLUME_MEDIUM == 128
VOLUME_HIGH == 192
VOLUME_MAX == 255

\* nullptr
Null == "nullptr"

----------------------------------------------------------------------------
(* Unsigned arithmetic *)

\* A 16-bit half of a 32-bit unsigned long.
Half == 2^16

\* unsigned long t plus a small d, modulo 2^32.
U32Add(t, d) ==
  LET s == t[2] + d
  IN  <<(t[1] + (s \div Half)) % Half, s % Half>>

\* a < b, both read as 32-bit numbers (no such comparison is in the code; the
\* properties are stated with it).
U32Lt(a, b) == a[1] < b[1] \/ (a[1] = b[1] /\ a[2] < b[2])

\* The difference as it would be if taken in a wider signed type: never
\* reaching a duration when a reads less than b.
U32SubSigned(a, b) ==
  IF U32Lt(a, b) THEN <<0, 0>>
  ELSE <<a[1] - b[1] - (IF a[2] < b[2] THEN 1 ELSE 0), (a[2] - b[2] + Half) % Half>>

\* unsigned long a - b, modulo 2^32.
U32Sub(a, b) ==
  LET borrow == IF a[2] < b[2] THEN 1 ELSE 0
  IN  <<(a[1] - b[1] - borrow + 2 * Half) % Half, (a[2] - b[2] + Half) % Half>>

\* unsigned long x >= uint16_t d (d promoted to 32 bits).
U32GeU16(x, d) == x[1] > 0 \/ x[2] >= d

\* uint8_t i, incremented.
Incr(i) == (i + 1) % (2^8)

----------------------------------------------------------------------------
(* Pattern tables *)

BuzzerNote(f, d, v) == [frequency |-> f, duration |-> d, volume |-> v]

\* {0, 0, 0}
EndMarker == BuzzerNote(0, 0, 0)

\* tone, pause, tone: the shape of PATTERN_WARNING, durations in milliseconds
PAT_TONES ==
  << BuzzerNote(FREQ_LOW, 2, VOLUME_MEDIUM),
     BuzzerNote(0, 1, 0),
     BuzzerNote(FREQ_HIGH, 3, VOLUME_MEDIUM),
     EndMarker >>

\* one short beep: the shape of PATTERN_ACK
PAT_BEEP ==
  << BuzzerNote(FREQ_MEDIUM, 1, VOLUME_LOW),
     EndMarker >>

\* a pattern whose first note has duration 0 and is not the end marker
PAT_GRACE ==
  << BuzzerNote(FREQ_HIGH, 0, VOLUME_HIGH),
     BuzzerNote(FREQ_LOW, 2, VOLUME_MAX),
     EndMarker >>

\* a pattern whose notes all have duration 0
PAT_ZERO ==
  << BuzzerNote(FREQ_LOW, 0, VOLUME_LOW),
     BuzzerNote(FREQ_HIGH, 0, VOLUME_LOW),
     EndMarker >>

\* a pattern with a note of frequency 0 and duration 0 whose volume is not 0
PAT_MUTE ==
  << BuzzerNote(FREQ_LOW, 1, VOLUME_LOW),
     BuzzerNote(0, 0, VOLUME_LOW),
     BuzzerNote(FREQ_HIGH, 1, VOLUME_LOW),
     EndMarker >>

\* a table without an end marker
PAT_NOEND ==
  << BuzzerNote(FREQ_LOW, 1, VOLUME_LOW),
     BuzzerNote(0, 1, 0) >>

\* a table whose first entry is the end marker
PAT_EMPTY == << EndMarker >>

\* The tables of the sketches, every duration divided by 100 (and at least 1).
PATTERN_STARTUP ==
  << BuzzerNote(FREQ_LOW, 1, VOLUME_MEDIUM),
     BuzzerNote(0, 1, 0),
     BuzzerNote(FREQ_MEDIUM, 1, VOLUME_MEDIUM),
     BuzzerNote(0, 1, 0),
     BuzzerNote(FREQ_HIGH, 2, VOLUME_MEDIUM),
     EndMarker >>

PATTERN_WARNING ==
  << BuzzerNote(FREQ_MEDIUM, 2, VOLUME_HIGH),
     BuzzerNote(0, 1, 0),
     BuzzerNote(FREQ_MEDIUM, 2, VOLUME_HIGH),
     EndMarker >>

PATTERN_ERROR ==
  << BuzzerNote(FREQ_HIGH, 1, VOLUME_HIGH),
     BuzzerNote(0, 1, 0),
     BuzzerNote(FREQ_HIGH, 1, VOLUME_HIGH),
     BuzzerNote(0, 1, 0),
     BuzzerNote(FREQ_HIGH, 1, VOLUME_HIGH),
     EndMarker >>

PATTERN_SUCCESS ==
  << BuzzerNote(FREQ_LOW, 1, VOLUME_MEDIUM),
     BuzzerNote(FREQ_MEDIUM, 1, VOLUME_MEDIUM),
     BuzzerNote(FREQ_HIGH, 2, VOLUME_MEDIUM),
     EndMarker >>

PATTERN_CRITICAL ==
  << BuzzerNote(FREQ_CRITICAL, 3, VOLUME_MAX),
     BuzzerNote(FREQ_LOW, 3, VOLUME_MAX),
     BuzzerNote(FREQ_CRITICAL, 3, VOLUME_MAX),
     BuzzerNote(FREQ_LOW, 3, VOLUME_MAX),
     EndMarker >>

PATTERN_ACK ==
  << BuzzerNote(FREQ_MEDIUM, 1, VOLUME_LOW),
     EndMarker >>

PATTERN_ATTENTION ==
  << BuzzerNote(FREQ_MEDIUM, 5, VOLUME_HIGH),
     BuzzerNote(0, 1, 0),
     BuzzerNote(FREQ_MEDIUM, 1, VOLUME_HIGH),
     EndMarker >>

PATTERN_HEARTBEAT ==
  << BuzzerNote(FREQ_LOW, 1, VOLUME_LOW),
     BuzzerNote(0, 1, 0),
     BuzzerNote(FREQ_LOW, 1, VOLUME_LOW),
     EndMarker >>

\* A table of as many notes as patternIndex has values, then its end marker;
\* the notes have duration 0, so that no time is needed to play them.
PAT_LONG ==
  [ k \in 1..(2^8 + 1) |->
      IF k = 2^8 + 1 THEN EndMarker ELSE BuzzerNote(FREQ_LOW, 0, VOLUME_LOW) ]

\* The tables playPattern is called with: each ends in its only end marker.
Patterns == {"PAT_TONES", "PAT_BEEP", "PAT_GRACE"}

\* Further tables a caller can pass: playPattern takes any BuzzerNote*.
OddPatterns == {"PAT_ZERO", "PAT_MUTE", "PAT_NOEND", "PAT_EMPTY"}

Table(p) ==
  CASE p = "PAT_TONES" -> PAT_TONES
    [] p = "PAT_BEEP"  -> PAT_BEEP
    [] p = "PAT_GRACE" -> PAT_GRACE
    [] p = "PAT_ZERO"  -> PAT_ZERO
    [] p = "PAT_MUTE"  -> PAT_MUTE
    [] p = "PAT_NOEND" -> PAT_NOEND
    [] p = "PAT_EMPTY" -> PAT_EMPTY
    [] p = "PAT_LONG"  -> PAT_LONG
    [] p = "PATTERN_STARTUP"   -> PATTERN_STARTUP
    [] p = "PATTERN_WARNING"   -> PATTERN_WARNING
    [] p = "PATTERN_ERROR"     -> PATTERN_ERROR
    [] p = "PATTERN_SUCCESS"   -> PATTERN_SUCCESS
    [] p = "PATTERN_CRITICAL"  -> PATTERN_CRITICAL
    [] p = "PATTERN_ACK"       -> PATTERN_ACK
    [] p = "PATTERN_ATTENTION" -> PATTERN_ATTENTION
    [] p = "PATTERN_HEARTBEAT" -> PATTERN_HEARTBEAT

\* What the memory after a table may hold, read as a BuzzerNote.
Garbage == {EndMarker, BuzzerNote(FREQ_MEDIUM, 1, VOLUME_HIGH)}

\* The contents of the memory after a table.
Heaps == [1..HeapLen -> Garbage]

\* The name a caller passes along with the table.
NameOf(p) == p

\* i is an index into the table p.
InTable(p, i) == i < Len(Table(p))

\* currentPattern[i]: the entry of the table or, past its end, whatever the
\* memory holds there.
NoteAt(p, i) ==
  IF InTable(p, i) THEN Table(p)[i + 1]
  ELSE heap[((i - Len(Table(p))) % HeapLen) + 1]

\* The end marker test as it would be on the duration alone.
IsEndMarkerDurationOnly(note) == note.duration = 0

\* note->frequency == 0 && note->duration == 0
IsEndMarker(note) == note.frequency = 0 /\ note.duration = 0

----------------------------------------------------------------------------
(* The PWM channel *)

Tone(f) == [op |-> "ledcWriteTone", val |-> f]
Duty(v) == [op |-> "ledcWrite", val |-> v]

\* What stop() writes: tone 0, duty 0.
Silence == <<Tone(0), Duty(0)>>

\* The channel after a command.
LedcAfter(ch, cmd) ==
  IF cmd.op = "ledcWriteTone" THEN [ch EXCEPT !.tone = cmd.val]
                              ELSE [ch EXCEPT !.duty = cmd.val]

RECURSIVE LedcAfterAll(_, _)
LedcAfterAll(ch, cmds) ==
  IF cmds = <<>> THEN ch
  ELSE LedcAfterAll(LedcAfter(ch, Head(cmds)), Tail(cmds))

\* playCurrentNote(): the commands for the note at patternIndex.
PlayCurrentNote(b) ==
  LET note == NoteAt(b.currentPattern, b.patternIndex)
  IN  IF note.frequency > 0
      THEN <<Tone(note.frequency), Duty(note.volume)>>
      ELSE <<Duty(0)>>

----------------------------------------------------------------------------
(* The operations of IndustrialBuzzer, as functions of the object: each     *)
(* gives the object afterwards (b) and the commands written (out).          *)

\* The object as it would be after a constructor that set isPlaying.
ConstructedPlaying ==
  [ currentPattern |-> Null,
    patternIndex   |-> 0,
    noteStartTime  |-> <<0, 0>>,
    isPlaying      |-> TRUE,
    repeat         |-> FALSE,
    currentName    |-> "" ]

\* The object after the constructor.
Constructed ==
  [ currentPattern |-> Null,
    patternIndex   |-> 0,
    noteStartTime  |-> <<0, 0>>,
    isPlaying      |-> FALSE,
    repeat         |-> FALSE,
    currentName    |-> "" ]

\* playPattern as it would be without "patternIndex = 0".
PlayPatternKeepsIndex(b, pattern, name, repeatPattern, now) ==
  LET nb == [ b EXCEPT !.currentPattern = pattern,
                       !.currentName    = name,
                       !.isPlaying      = TRUE,
                       !.repeat         = repeatPattern,
                       !.noteStartTime  = now ]
  IN  [b |-> nb, out |-> PlayCurrentNote(nb)]

\* playPattern as it would be without the call of playCurrentNote().
PlayPatternDeferred(b, pattern, name, repeatPattern, now) ==
  [ b |-> [ b EXCEPT !.currentPattern = pattern,
                     !.currentName    = name,
                     !.patternIndex   = 0,
                     !.isPlaying      = TRUE,
                     !.repeat         = repeatPattern,
                     !.noteStartTime  = now ],
    out |-> <<>> ]

\* playPattern(pattern, name, repeatPattern), millis() reading now.
PlayPatternFn(b, pattern, name, repeatPattern, now) ==
  LET nb == [ b EXCEPT !.currentPattern = pattern,
                       !.currentName    = name,
                       !.patternIndex   = 0,
                       !.isPlaying      = TRUE,
                       !.repeat         = repeatPattern,
                       !.noteStartTime  = now ]
  IN  [b |-> nb, out |-> PlayCurrentNote(nb)]

\* stop() as it would be without "repeat = false".
StopKeepsRepeat(b) ==
  [ b   |-> [b EXCEPT !.isPlaying = FALSE, !.currentName = ""],
    out |-> Silence ]

\* stop() as it would be if it wrote to the channel only when playing.
StopOnlyWhenPlaying(b) ==
  [ b   |-> [b EXCEPT !.isPlaying = FALSE, !.repeat = FALSE, !.currentName = ""],
    out |-> IF b.isPlaying THEN Silence ELSE <<>> ]

\* stop()
StopFn(b) ==
  [ b   |-> [b EXCEPT !.isPlaying = FALSE, !.repeat = FALSE, !.currentName = ""],
    out |-> Silence ]

\* The early return as it would be without "!isPlaying".
UpdateReturnsEarlyNullOnly(b) == b.currentPattern = Null

\* update(): if (!isPlaying || currentPattern == nullptr) return;
UpdateReturnsEarly(b) == ~b.isPlaying \/ b.currentPattern = Null

\* The duration check as it would be with the elapsed time taken as zero
\* whenever the clock reads less than noteStartTime.
DurationElapsedClamped(b, now) ==
  /\ ~U32Lt(now, b.noteStartTime)
  /\ U32GeU16(U32Sub(now, b.noteStartTime),
              NoteAt(b.currentPattern, b.patternIndex).duration)

\* The duration check as it would be with > in place of >=.
DurationElapsedStrict(b, now) ==
  LET x == U32Sub(now, b.noteStartTime)
      d == NoteAt(b.currentPattern, b.patternIndex).duration
  IN  x[1] > 0 \/ x[2] > d

\* update(): millis() - noteStartTime >= note->duration
DurationElapsed(b, now) ==
  U32GeU16(U32Sub(now, b.noteStartTime),
           NoteAt(b.currentPattern, b.patternIndex).duration)

\* The end marker as it would be handled without the repeat branch.
AtEndMarkerAlwaysStops(b, now) == StopFn(b)

\* The end marker as it would be handled without "patternIndex = 0".
AtEndMarkerNoReset(b, now) ==
  IF b.repeat
  THEN LET nb == [b EXCEPT !.noteStartTime = now]
       IN  [b |-> nb, out |-> PlayCurrentNote(nb)]
  ELSE StopFn(b)

\* update(), at the end marker: start over when repeating, else stop.
AtEndMarker(b, now) ==
  IF b.repeat
  THEN LET nb == [b EXCEPT !.patternIndex = 0, !.noteStartTime = now]
       IN  [b |-> nb, out |-> PlayCurrentNote(nb)]
  ELSE StopFn(b)

\* update() as it would be without "noteStartTime = millis()" on going to
\* the following note.
UpdateFnKeepsStart(b, now) ==
  IF UpdateReturnsEarly(b) THEN [b |-> b, out |-> <<>>]
  ELSE IF ~DurationElapsed(b, now) THEN [b |-> b, out |-> <<>>]
  ELSE LET b1 == [b EXCEPT !.patternIndex = Incr(b.patternIndex)]
       IN  IF IsEndMarker(NoteAt(b1.currentPattern, b1.patternIndex))
           THEN AtEndMarker(b1, now)
           ELSE [b |-> b1, out |-> PlayCurrentNote(b1)]

\* update() as it would be if it wrote the current note again while its
\* duration has not elapsed.
UpdateFnReplays(b, now) ==
  IF UpdateReturnsEarly(b) THEN [b |-> b, out |-> <<>>]
  ELSE IF ~DurationElapsed(b, now) THEN [b |-> b, out |-> PlayCurrentNote(b)]
  ELSE LET b1 == [b EXCEPT !.patternIndex = Incr(b.patternIndex)]
       IN  IF IsEndMarker(NoteAt(b1.currentPattern, b1.patternIndex))
           THEN AtEndMarker(b1, now)
           ELSE LET nb == [b1 EXCEPT !.noteStartTime = now]
                IN  [b |-> nb, out |-> PlayCurrentNote(nb)]

\* update() as it would be with the duration check made again after an
\* advance, so that one call can take two notes.
UpdateFnAgain(b, now) ==
  LET Once(x) ==
        IF UpdateReturnsEarly(x) THEN [b |-> x, out |-> <<>>]
        ELSE IF ~DurationElapsed(x, now) THEN [b |-> x, out |-> <<>>]
        ELSE LET x1 == [x EXCEPT !.patternIndex = Incr(x.patternIndex)]
             IN  IF IsEndMarker(NoteAt(x1.currentPattern, x1.patternIndex))
                 THEN AtEndMarker(x1, now)
                 ELSE LET nx == [x1 EXCEPT !.noteStartTime = now]
                      IN  [b |-> nx, out |-> PlayCurrentNote(nx)]
      r1 == Once(b)
      r2 == Once(r1.b)
  IN  [b |-> r2.b, out |-> r1.out \o r2.out]

\* update(), millis() reading now: at most one note further.
UpdateFn(b, now) ==
  IF UpdateReturnsEarly(b) THEN [b |-> b, out |-> <<>>]
  ELSE IF ~DurationElapsed(b, now) THEN [b |-> b, out |-> <<>>]
  ELSE LET b1 == [b EXCEPT !.patternIndex = Incr(b.patternIndex)]
       IN  IF IsEndMarker(NoteAt(b1.currentPattern, b1.patternIndex))
           THEN AtEndMarker(b1, now)
           ELSE LET nb == [b1 EXCEPT !.noteStartTime = now]
                IN  [b |-> nb, out |-> PlayCurrentNote(nb)]

\* isActive()
isActive == buzzer.isPlaying

----------------------------------------------------------------------------
(* The state machine *)

\* The clock when the buzzer is first used: just after boot, or after an
\* idle time that has brought it to WrapLead milliseconds before it wraps.
BootClocks == {<<0, 0>>, <<Half - 1, Half - WrapLead>>}

\* struct SystemState: the defaults of the fields the link state is kept in.
SystemState ==
  [ ethConnected         |-> FALSE,
    lastReconnectAttempt |-> <<0, 0>>,
    reconnectAttempts    |-> 0,
    signalQuality        |-> -1 ]

\* Nothing has happened yet in the NTP clock sketch.
NothingSeen ==
  [ event     |-> "none",   \* the last Ethernet event
    link      |-> "none",   \* the last of GOT_IP, DISCONNECTED and STOP
    began     |-> FALSE,    \* the last loop() called ETH.begin
    attemptMs |-> -1,       \* upMs at the last ETH.begin of attemptReconnect
    ticks     |-> 0,        \* display updates since the bars were last drawn
    redrew    |-> FALSE,    \* the last loop() drew the bars
    redraws   |-> 0,        \* the times loop() has drawn the bars
    spacing   |-> 0 ]       \* display updates from the bars' drawing before
                            \* the last to the last, that one counted

\* The state after construction, but for the memory after the tables and the
\* SystemState.
InitObject ==
  /\ buzzer = Constructed
  /\ ledc = [tone |-> 0, duty |-> 0]
  /\ millis \in BootClocks
  /\ emitted = <<>>
  /\ lastOp = "boot"
  /\ argPattern = Null
  /\ argRepeat = FALSE
  /\ upMs = 0
  /\ startMs = 0
  /\ pollGap = 2
  /\ stopRun = 0
  /\ cancelled = FALSE
  /\ prevActive = FALSE
  /\ noteMs = 0
  /\ played = <<>>
  /\ menu = [selectedItem |-> 0, scrollOffset |-> 0]
  /\ fell = {}
  /\ targetTime = <<0, 0>>
  /\ infoUpdateCounter = 0
  /\ seen = NothingSeen

\* The tables of Patterns are never read past their end marker: what
\* follows them is left out.
Init ==
  /\ InitObject
  /\ heap = [j \in 1..HeapLen |-> EndMarker]
  /\ state = SystemState

\* Any contents of the memory after the tables, the clock far from wrapping.
InitAnyHeap ==
  /\ InitObject
  /\ millis = <<0, 0>>
  /\ heap \in Heaps
  /\ state = SystemState

\* A caller starts a pattern.
PlayPattern(pattern, repeatPattern) ==
  LET r == PlayPatternFn(buzzer, pattern, NameOf(pattern), repeatPattern, millis)
  IN  /\ buzzer' = r.b
      /\ ledc' = LedcAfterAll(ledc, r.out)
      /\ emitted' = r.out
      /\ lastOp' = "play"
      /\ argPattern' = pattern
      /\ argRepeat' = repeatPattern
      /\ startMs' = upMs
      /\ pollGap' = 0
      /\ stopRun' = 0
      /\ cancelled' = FALSE
      /\ prevActive' = buzzer.isPlaying
      /\ noteMs' = upMs
      /\ played' = <<r.out>>
      /\ UNCHANGED <<millis, upMs, heap, menu, fell>>
      /\ UNCHANGED ntpVars

\* A caller stops the buzzer.
Stop ==
  LET r == StopFn(buzzer)
  IN  /\ buzzer' = r.b
      /\ ledc' = LedcAfterAll(ledc, r.out)
      /\ emitted' = r.out
      /\ lastOp' = "stop"
      /\ stopRun' = IF stopRun < 2 THEN stopRun + 1 ELSE 2
      /\ cancelled' = TRUE
      /\ prevActive' = buzzer.isPlaying
      /\ UNCHANGED <<millis, argPattern, argRepeat, upMs, startMs, pollGap,
                      heap, noteMs, played, menu, fell>>
      /\ UNCHANGED ntpVars

\* The caller's loop polls.
Update ==
  LET r == UpdateFn(buzzer, millis)
  IN  /\ buzzer' = r.b
      /\ ledc' = LedcAfterAll(ledc, r.out)
      /\ emitted' = r.out
      /\ lastOp' = "update"
      /\ pollGap' = IF pollGap = 2 THEN 2 ELSE 0
      /\ stopRun' = 0
      /\ prevActive' = buzzer.isPlaying
      /\ noteMs' = IF r.b.isPlaying /\ r.out # <<>> THEN upMs ELSE noteMs
      /\ played' = IF r.b.isPlaying /\ r.out # <<>> /\ Len(played) < MaxPlayed
                    THEN Append(played, r.out) ELSE played
      /\ UNCHANGED <<millis, argPattern, argRepeat, upMs, startMs, cancelled,
                      heap, menu, fell>>
      /\ UNCHANGED ntpVars

\* d milliseconds pass between two operations (delay(10) in loop()).
Delay(d) ==
  /\ upMs + d <= MaxTime
  /\ millis' = U32Add(millis, d)
  /\ upMs' = upMs + d
  /\ pollGap' = IF pollGap = 0 /\ d = 1 THEN 1 ELSE 2
  /\ lastOp' = "delay"
  /\ emitted' = <<>>
  /\ stopRun' = 0
  /\ prevActive' = buzzer.isPlaying
  /\ UNCHANGED <<buzzer, ledc, argPattern, argRepeat, startMs, cancelled,
                  heap, noteMs, played, menu, fell>>
  /\ UNCHANGED ntpVars

Next ==
  \/ \E p \in Patterns, rep \in BOOLEAN : PlayPattern(p, rep)
  \/ Stop
  \/ Update
  \/ \E d \in 1..MaxDelta : Delay(d)

Spec == Init /\ [][Next]_vars

\* The same callers, passing the further tables.
NextAnyTable ==
  \/ \E p \in OddPatterns, rep \in BOOLEAN : PlayPattern(p, rep)
  \/ Stop
  \/ Update
  \/ \E d \in 1..MaxDelta : Delay(d)

SpecAnyTable == InitAnyHeap /\ [][NextAnyTable]_vars

\* The same callers, passing a table longer than patternIndex can count,
\* with updates following one another in the same millisecond.
NextLongTable ==
  \/ \E rep \in BOOLEAN : PlayPattern("PAT_LONG", rep)
  \/ Stop
  \/ Update

InitLongTable == Init /\ millis = <<0, 0>>

SpecLongTable == InitLongTable /\ [][NextLongTable]_vars

----------------------------------------------------------------------------
(* The TFT sketch: the buzzer, a menu of patterns and three buttons.  Waits *)
(* are divided by 100 as the durations are (and are at least 1).            *)

MenuItem(n, p, rep) == [name |-> n, pattern |-> p, repeat |-> rep]

menuItems ==
  << MenuItem("1. Startup", "PATTERN_STARTUP", FALSE),
     MenuItem("2. Warning", "PATTERN_WARNING", FALSE),
     MenuItem("3. Error", "PATTERN_ERROR", FALSE),
     MenuItem("4. Success", "PATTERN_SUCCESS", FALSE),
     MenuItem("5. Critical", "PATTERN_CRITICAL", TRUE),
     MenuItem("6. Acknowledge", "PATTERN_ACK", FALSE),
     MenuItem("7. Attention", "PATTERN_ATTENTION", FALSE),
     MenuItem("8. Heartbeat", "PATTERN_HEARTBEAT", FALSE) >>

\* sizeof(menuItems) / sizeof(MenuItem)
MENU_COUNT == Len(menuItems)

MAX_VISIBLE_ITEMS == 6

\* delay(30) in playFeedbackBeep()
FeedbackBeepMs == 1

Max(a, b) == IF a > b THEN a ELSE b

\* playFeedbackBeep(): the commands written.
PlayFeedbackBeep == <<Tone(FREQ_MEDIUM), Duty(VOLUME_LOW), Duty(0)>>

\* LEFT as it would be without the scrollOffset of the wrap to the last item.
MenuLeftKeepsScroll(m) ==
  LET sel == m.selectedItem - 1
  IN  IF sel < 0
      THEN [m EXCEPT !.selectedItem = MENU_COUNT - 1]
      ELSE IF sel < m.scrollOffset
           THEN [selectedItem |-> sel, scrollOffset |-> sel]
           ELSE [m EXCEPT !.selectedItem = sel]

\* LEFT, the buzzer idle: the item before, from the first to the last.
MenuLeft(m) ==
  LET sel == m.selectedItem - 1
  IN  IF sel < 0
      THEN [selectedItem |-> MENU_COUNT - 1,
            scrollOffset |-> Max(0, MENU_COUNT - MAX_VISIBLE_ITEMS)]
      ELSE IF sel < m.scrollOffset
           THEN [selectedItem |-> sel, scrollOffset |-> sel]
           ELSE [m EXCEPT !.selectedItem = sel]

\* RIGHT, the buzzer idle: the item after, from the last to the first.
MenuRight(m) ==
  LET sel == m.selectedItem + 1
  IN  IF sel >= MENU_COUNT
      THEN [selectedItem |-> 0, scrollOffset |-> 0]
      ELSE IF sel >= m.scrollOffset + MAX_VISIBLE_ITEMS
           THEN [selectedItem |-> sel,
                 scrollOffset |-> sel - MAX_VISIBLE_ITEMS + 1]
           ELSE [m EXCEPT !.selectedItem = sel]

\* OK as it would be if it played the selected item whether or not a
\* pattern is playing.
OkPressedAlwaysPlays(b, m, now) ==
  LET item == menuItems[m.selectedItem + 1]
  IN  PlayPatternFn(b, item.pattern, item.name, item.repeat, now)

\* OK, after the beep: stop the pattern playing, or play the selected item.
OkPressed(b, m, now) ==
  IF b.isPlaying
  THEN StopFn(b)
  ELSE LET item == menuItems[m.selectedItem + 1]
       IN  PlayPatternFn(b, item.pattern, item.name, item.repeat, now)

\* handleButtons(), the buttons that fell since the last call given: LEFT,
\* then RIGHT, then OK.
HandleButtons(left, ok, right) ==
  LET idle == ~buzzer.isPlaying
      goL  == left /\ idle
      goR  == right /\ idle
      m1   == IF goL THEN MenuLeft(menu) ELSE menu
      m2   == IF goR THEN MenuRight(m1) ELSE m1
      beeps == (IF goL THEN 1 ELSE 0) + (IF goR THEN 1 ELSE 0)
               + (IF ok THEN 1 ELSE 0)
      ms   == beeps * FeedbackBeepMs
      r    == IF ok THEN OkPressed(buzzer, m2, U32Add(millis, ms))
                    ELSE [b |-> buzzer, out |-> <<>>]
      out  == (IF goL THEN PlayFeedbackBeep ELSE <<>>)
              \o (IF goR THEN PlayFeedbackBeep ELSE <<>>)
              \o (IF ok THEN PlayFeedbackBeep \o r.out ELSE <<>>)
      plays == ok /\ r.b.isPlaying
  IN  /\ upMs + ms <= MaxTime
      /\ buzzer' = r.b
      /\ menu' = m2
      /\ ledc' = LedcAfterAll(ledc, out)
      /\ emitted' = out
      /\ lastOp' = "buttons"
      /\ fell' = (IF left THEN {"LEFT"} ELSE {}) \cup (IF ok THEN {"OK"} ELSE {})
                 \cup (IF right THEN {"RIGHT"} ELSE {})
      /\ millis' = U32Add(millis, ms)
      /\ upMs' = upMs + ms
      /\ argPattern' = IF plays THEN r.b.currentPattern ELSE argPattern
      /\ argRepeat' = IF plays THEN r.b.repeat ELSE argRepeat
      /\ startMs' = IF plays THEN upMs + ms ELSE startMs
      /\ noteMs' = IF plays THEN upMs + ms ELSE noteMs
      /\ played' = IF plays THEN <<r.out>> ELSE played
      /\ cancelled' = IF plays THEN FALSE ELSE IF ok THEN TRUE ELSE cancelled
      /\ pollGap' = IF plays THEN 0 ELSE IF ms = 0 THEN pollGap ELSE 2
      /\ stopRun' = 0
      /\ prevActive' = buzzer.isPlaying
      /\ UNCHANGED heap
      /\ UNCHANGED ntpVars

InitTft ==
  /\ InitObject
  /\ millis = <<0, 0>>
  /\ heap = [j \in 1..HeapLen |-> EndMarker]
  /\ state = SystemState

\* loop(): update(), handleButtons(), delay(10)
NextTft ==
  \/ Update
  \/ \E left, ok, right \in BOOLEAN : HandleButtons(left, ok, right)
  \/ \E d \in 1..MaxDelta : Delay(d)

SpecTft == InitTft /\ [][NextTft]_vars

----------------------------------------------------------------------------
(* The serial sketch: the same buzzer, commanded by characters read from    *)
(* the serial port.  Waits are divided by 100 as the durations are.         *)

\* playTone(..., 300, ...) in the custom tone test
ToneTestMs == 3

\* delay(100) between the tones of the custom tone test
ToneGapMs == 1

\* delay(100) before the menu is printed again
MenuDelayMs == 1

\* The characters read: the commands, and one that is none.
SerialInputs == {"1", "2", "3", "4", "5", "6", "7", "8", "9", "0", "x"}

\* The table a command character plays.
SerialPattern(input) ==
  CASE input = "1" -> "PATTERN_STARTUP"
    [] input = "2" -> "PATTERN_WARNING"
    [] input = "3" -> "PATTERN_ERROR"
    [] input = "4" -> "PATTERN_SUCCESS"
    [] input = "5" -> "PATTERN_CRITICAL"
    [] input = "6" -> "PATTERN_ACK"
    [] input = "7" -> "PATTERN_ATTENTION"
    [] input = "8" -> "PATTERN_HEARTBEAT"
    [] OTHER -> Null

\* playTone(frequency, duration, volume): the commands written and the time
\* it blocks for.
PlayToneFn(b, frequency, duration, volume) ==
  [ out |-> (IF frequency > 0 THEN <<Tone(frequency), Duty(volume)>>
                              ELSE <<Duty(0)>>)
            \o <<Duty(0)>>,
    ms  |-> duration ]

\* case '9': three tones, a wait between them.
CustomToneTest(b) ==
  LET t1 == PlayToneFn(b, FREQ_LOW, ToneTestMs, VOLUME_MEDIUM)
      t2 == PlayToneFn(b, FREQ_MEDIUM, ToneTestMs, VOLUME_MEDIUM)
      t3 == PlayToneFn(b, FREQ_HIGH, ToneTestMs, VOLUME_MEDIUM)
  IN  [ out |-> t1.out \o t2.out \o t3.out,
        ms  |-> t1.ms + ToneGapMs + t2.ms + ToneGapMs + t3.ms ]

\* handleSerialInput() with a character to read.
SerialCommand(input) ==
  LET plays == SerialPattern(input) # Null
      r  == IF plays
            THEN PlayPatternFn(buzzer, SerialPattern(input), "", input = "5",
                               millis)
            ELSE IF input = "0" THEN StopFn(buzzer)
            ELSE IF input = "9"
                 THEN [b |-> buzzer, out |-> CustomToneTest(buzzer).out]
                 ELSE [b |-> buzzer, out |-> <<>>]
      ms == (IF input = "9" THEN CustomToneTest(buzzer).ms ELSE 0)
            + (IF input # "5" THEN MenuDelayMs ELSE 0)
  IN  /\ upMs + ms <= MaxSerialTime
      /\ buzzer' = r.b
      /\ ledc' = LedcAfterAll(ledc, r.out)
      /\ emitted' = r.out
      /\ lastOp' = "serial"
      /\ millis' = U32Add(millis, ms)
      /\ upMs' = upMs + ms
      /\ argPattern' = IF plays THEN SerialPattern(input) ELSE argPattern
      /\ argRepeat' = IF plays THEN input = "5" ELSE argRepeat
      /\ startMs' = IF plays THEN upMs ELSE startMs
      /\ noteMs' = IF plays THEN upMs ELSE noteMs
      /\ played' = IF plays THEN <<r.out>> ELSE played
      /\ cancelled' = IF plays THEN FALSE
                      ELSE IF input = "0" THEN TRUE ELSE cancelled
      /\ pollGap' = IF ms = 0 THEN 0 ELSE 2
      /\ stopRun' = 0
      /\ prevActive' = buzzer.isPlaying
      /\ fell' = {input}
      /\ UNCHANGED <<heap, menu>>
      /\ UNCHANGED ntpVars

InitSerial ==
  /\ InitObject
  /\ millis = <<0, 0>>
  /\ heap = [j \in 1..HeapLen |-> EndMarker]
  /\ state = SystemState

\* loop(): update(), handleSerialInput(), delay(10)
NextSerial ==
  \/ Update
  \/ \E input \in SerialInputs : SerialCommand(input)
  \/ \E d \in 1..MaxDelta : Delay(d)

SpecSerial == InitSerial /\ [][NextSerial]_vars

----------------------------------------------------------------------------
(* The NTP clock sketch: the Ethernet event handler, the reconnect attempts  *)
(* and the display updates of loop().  Here the clock counts seconds: every *)
(* time of the sketch is divided by 1000.  setup() is left out: of the      *)
(* variables kept here it sets targetTime only, as loop() does.             *)

\* RECONNECT_DELAY = 5000
RECONNECT_DELAY == 5

\* targetTime = millis() + 1000
DisplayPeriod == 1

\* infoUpdateCounter++ >= 10
INFO_UPDATE_TICKS == 10

EthEvents == {"ETH_START", "ETH_CONNECTED", "ETH_GOT_IP", "ETH_DISCONNECTED",
              "ETH_STOP"}

\* The handler as it would be if ETH_STOP left signalQuality alone.
WiFiEventStopKeepsQuality(st, event) ==
  CASE event = "ETH_GOT_IP" ->
         [st EXCEPT !.ethConnected = TRUE, !.signalQuality = 3,
                    !.reconnectAttempts = 0]
    [] event = "ETH_DISCONNECTED" ->
         [st EXCEPT !.ethConnected = FALSE, !.signalQuality = -1]
    [] event = "ETH_STOP" ->
         [st EXCEPT !.ethConnected = FALSE]
    [] OTHER -> st

\* WiFiEvent(event), on the SystemState.
WiFiEventFn(st, event) ==
  CASE event = "ETH_GOT_IP" ->
         [st EXCEPT !.ethConnected = TRUE, !.signalQuality = 3,
                    !.reconnectAttempts = 0]
    [] event = "ETH_DISCONNECTED" ->
         [st EXCEPT !.ethConnected = FALSE, !.signalQuality = -1]
    [] event = "ETH_STOP" ->
         [st EXCEPT !.ethConnected = FALSE, !.signalQuality = -1]
    [] OTHER -> st

\* attemptReconnect(), millis() reading now: the SystemState afterwards and
\* whether ETH.begin was called.
AttemptReconnectFn(st, now) ==
  IF /\ ~st.ethConnected
     /\ U32Lt(<<0, RECONNECT_DELAY>>, U32Sub(now, st.lastReconnectAttempt))
  THEN [ st    |-> [st EXCEPT !.lastReconnectAttempt = now,
                              !.reconnectAttempts = Incr(st.reconnectAttempts)],
         began |-> TRUE ]
  ELSE [st |-> st, began |-> FALSE]

\* An Ethernet event is delivered.
EthEvent(event) ==
  /\ state' = WiFiEventFn(state, event)
  /\ seen' = [seen EXCEPT !.event = event,
                          !.link = IF event \in {"ETH_GOT_IP",
                                                 "ETH_DISCONNECTED", "ETH_STOP"}
                                   THEN event ELSE seen.link]
  /\ lastOp' = "ethEvent"
  /\ UNCHANGED <<millis, upMs, targetTime, infoUpdateCounter>>
  /\ UNCHANGED buzzerVars

\* One pass of loop(), taking d seconds in all.
NtpLoop(d) ==
  LET r      == IF ~state.ethConnected
                THEN AttemptReconnectFn(state, millis)
                ELSE [st |-> state, began |-> FALSE]
      tick   == U32Lt(targetTime, millis)
      redraw == tick /\ infoUpdateCounter >= INFO_UPDATE_TICKS
  IN  /\ upMs + d <= MaxNtpTime
      /\ state' = r.st
      /\ targetTime' = IF tick THEN U32Add(millis, DisplayPeriod)
                               ELSE targetTime
      /\ infoUpdateCounter' = IF ~tick THEN infoUpdateCounter
                              ELSE IF redraw THEN 0
                              ELSE Incr(infoUpdateCounter)
      /\ seen' = [seen EXCEPT
                    !.began     = r.began,
                    !.attemptMs = IF r.began THEN upMs ELSE seen.attemptMs,
                    !.ticks     = IF ~tick THEN seen.ticks
                                  ELSE IF redraw THEN 0 ELSE seen.ticks + 1,
                    !.redrew    = redraw,
                    !.redraws   = IF redraw THEN seen.redraws + 1
                                            ELSE seen.redraws,
                    !.spacing   = IF redraw THEN seen.ticks + 1
                                            ELSE seen.spacing]
      /\ millis' = U32Add(millis, d)
      /\ upMs' = upMs + d
      /\ lastOp' = "ntpLoop"
      /\ UNCHANGED buzzerVars

\* The globals as initialised; reconnectAttempts at 0, or after a time
\* without a link that has taken it to AttemptsLead before it wraps.
InitNtp ==
  /\ InitObject
  /\ millis = <<0, 0>>
  /\ heap = [j \in 1..HeapLen |-> EndMarker]
  /\ state \in {SystemState,
                [SystemState EXCEPT !.reconnectAttempts = 2^8 - AttemptsLead]}

NextNtp ==
  \/ \E event \in EthEvents : EthEvent(event)
  \/ \E d \in 0..MaxLoopTime : NtpLoop(d)

SpecNtp == InitNtp /\ [][NextNtp]_vars

----------------------------------------------------------------------------
(* Definitions the properties are stated with *)

\* The sum of the durations of the first n notes of a table.
RECURSIVE DurationOfFirst(_, _)
DurationOfFirst(p, n) ==
  IF n = 0 THEN 0 ELSE DurationOfFirst(p, n - 1) + Table(p)[n].duration

\* The sum of the durations of all notes of a table.
TotalDuration(p) == DurationOfFirst(p, Len(Table(p)))

\* The commands that apply one note to the channel.
CommandsOf(note) ==
  IF note.frequency > 0 THEN <<Tone(note.frequency), Duty(note.volume)>>
                        ELSE <<Duty(0)>>

\* The channel when silent.
SilentChannel == [tone |-> 0, duty |-> 0]

\* Milliseconds since the last playPattern.
SinceStart == upMs - startMs

\* The clock as it read at the last playPattern.
StartClock == U32Sub(millis, <<0, SinceStart>>)

\* The object a single update at the present time leaves, when the last
\* playPattern is followed by nothing else.
AfterSinglePoll ==
  UpdateFn(PlayPatternFn(Constructed, argPattern, NameOf(argPattern),
                         argRepeat, StartClock).b, millis).b

----------------------------------------------------------------------------
(* C1..C10 *)

\* C1: a pattern started without repeat, once update has run at a time more
\* than the sum of its durations after the start, is no longer active and
\* the channel is silent.
C1_FinishedAfterTotalDuration ==
  ( /\ lastOp = "update"
    /\ argPattern # Null
    /\ ~argRepeat
    /\ SinceStart > TotalDuration(argPattern) )
  => (~isActive /\ ledc = SilentChannel)

\* C2: an update that finds the durations of the current note and of the
\* note after it both elapsed goes further than one note: it does not
\* leave the buzzer playing the very next note.
C2_PollAdvancesThroughAllElapsed ==
  [][ ( /\ lastOp' = "update"
        /\ buzzer.isPlaying
        /\ ~IsEndMarker(NoteAt(buzzer.currentPattern, buzzer.patternIndex + 1))
        /\ U32GeU16(U32Sub(millis, buzzer.noteStartTime),
                    NoteAt(buzzer.currentPattern, buzzer.patternIndex).duration
                    + NoteAt(buzzer.currentPattern,
                             buzzer.patternIndex + 1).duration) )
      => ~( /\ buzzer'.isPlaying
            /\ buzzer'.patternIndex = buzzer.patternIndex + 1 ) ]_vars

\* C3: after a playPattern followed only by updates (and waits), the active
\* flag and the note index are those a single update at the present time
\* would have left.
C3_MonotonicCallInvariance ==
  ( /\ lastOp = "update"
    /\ argPattern # Null
    /\ ~cancelled )
  => ( /\ buzzer.isPlaying = AfterSinglePoll.isPlaying
       /\ buzzer.patternIndex = AfterSinglePoll.patternIndex )

\* C4: in a repeating playback polled in every millisecond, every note is
\* written to the channel at its place in the period: the time since the
\* start, modulo the sum of the durations, is the sum of the durations of
\* the notes before it.
C4_LoopingIsPeriodic ==
  ( /\ lastOp = "update"
    /\ pollGap = 0
    /\ argPattern # Null
    /\ argRepeat
    /\ ~cancelled
    /\ emitted # <<>>
    /\ TotalDuration(argPattern) > 0 )
  => ( /\ emitted = CommandsOf(NoteAt(argPattern, buzzer.patternIndex))
       /\ SinceStart % TotalDuration(argPattern)
            = DurationOfFirst(argPattern, buzzer.patternIndex) )

\* C5: while a repeating pattern plays, an update never makes the buzzer
\* idle; the update that reaches the end marker goes back to note 0, writes
\* note 0 to the channel in that same call and restarts its time; only
\* stop() ends a repeating playback.
C5_LoopingNeverIdles ==
  [][ (buzzer.isPlaying /\ buzzer.repeat)
      => /\ lastOp' = "update"
            => /\ buzzer'.isPlaying
               /\ buzzer'.repeat
               /\ ( /\ DurationElapsed(buzzer, millis)
                    /\ IsEndMarker(NoteAt(buzzer.currentPattern,
                                          buzzer.patternIndex + 1)) )
                  => /\ buzzer'.patternIndex = 0
                     /\ buzzer'.noteStartTime = millis
                     /\ emitted' = CommandsOf(NoteAt(buzzer.currentPattern, 0))
                     /\ ledc' = LedcAfterAll(ledc, emitted')
         /\ ~buzzer'.isPlaying => lastOp' = "stop" ]_vars

\* C5 witness: an update has taken a repeating pattern from its last note
\* back to note 0 and written note 0.
C5_Witness ==
  /\ lastOp = "update"
  /\ prevActive
  /\ buzzer.isPlaying
  /\ buzzer.repeat
  /\ buzzer.patternIndex = 0
  /\ emitted = CommandsOf(NoteAt(buzzer.currentPattern, 0))
  /\ SinceStart > 0

\* C6: right after playPattern(pattern, name, repeat) at clock value now the
\* buzzer is active at note 0 of that pattern, noteStartTime is now, the
\* repeat flag is the one given, and note 0 has been written to the channel.
C6_StartEffect ==
  lastOp = "play"
  => /\ isActive
     /\ buzzer.currentPattern = argPattern
     /\ buzzer.patternIndex = 0
     /\ buzzer.noteStartTime = millis
     /\ buzzer.repeat = argRepeat
     /\ emitted = CommandsOf(Table(argPattern)[1])
     /\ ledc.duty = (IF Table(argPattern)[1].frequency > 0
                     THEN Table(argPattern)[1].volume ELSE 0)
     /\ Table(argPattern)[1].frequency > 0
          => ledc.tone = Table(argPattern)[1].frequency

\* C6 witness: a repeating pattern has been started some time after boot.
C6_Witness ==
  /\ lastOp = "play"
  /\ argRepeat
  /\ upMs > 0
  /\ emitted # <<>>

\* C7: a playPattern while another pattern plays leaves exactly the object a
\* playPattern on an idle buzzer leaves (one never started, or this one
\* stopped first), and writes the new pattern's note 0 and nothing else.
C7_Preemption ==
  [][ (lastOp' = "play" /\ buzzer.isPlaying)
      => /\ buzzer' = PlayPatternFn(Constructed, argPattern',
                                    NameOf(argPattern'), argRepeat', millis).b
         /\ buzzer' = PlayPatternFn(StopFn(buzzer).b, argPattern',
                                    NameOf(argPattern'), argRepeat', millis).b
         /\ buzzer'.patternIndex = 0
         /\ buzzer'.noteStartTime = millis
         /\ buzzer'.repeat = argRepeat'
         /\ emitted' = CommandsOf(Table(argPattern')[1]) ]_vars

\* C7 witness: a pattern was started while a pattern was playing.
C7_Witness ==
  /\ lastOp = "play"
  /\ prevActive
  /\ SinceStart = 0
  /\ upMs > 0

\* C8: right after stop(), whatever the state before, the buzzer is idle,
\* the repeat flag and the name are cleared, and tone 0 and duty 0 have been
\* written to the channel.
C8_StopEffect ==
  lastOp = "stop"
  => /\ ~isActive
     /\ ~buzzer.repeat
     /\ buzzer.currentName = ""
     /\ emitted = Silence
     /\ ledc = SilentChannel

\* C8 witness: stop() has been called on a buzzer that was already idle
\* after a playback.
C8_Witness ==
  /\ lastOp = "stop"
  /\ ~prevActive
  /\ argPattern # Null

\* C9: a stop() directly after a stop() changes neither the object nor the
\* channel and writes the same commands as the first.
C9_StopIdempotent ==
  [][ (lastOp = "stop" /\ lastOp' = "stop")
      => /\ buzzer' = buzzer
         /\ ledc' = ledc
         /\ emitted' = emitted ]_vars

\* C9 witness: two stop() calls in a row, after a pattern was started.
C9_Witness ==
  /\ lastOp = "stop"
  /\ stopRun = 2
  /\ argPattern # Null

\* C10: once a caller has called stop(), and until the next playPattern, an
\* update writes nothing to the channel and changes nothing of the object.
C10_StopIsFinal ==
  [][ (cancelled /\ lastOp' = "update")
      => /\ buzzer' = buzzer
         /\ ledc' = ledc
         /\ emitted' = <<>> ]_vars

\* C10 witness: an update has run after a stop() of a repeating pattern,
\* later than the time its current note would have ended.
C10_Witness ==
  /\ cancelled
  /\ lastOp = "update"
  /\ argRepeat
  /\ buzzer.currentPattern # Null
  /\ DurationElapsed(buzzer, millis)

----------------------------------------------------------------------------
(* C11..C20 *)

\* The note update() finds current.
CurrentNote == NoteAt(buzzer.currentPattern, buzzer.patternIndex)

\* The step is an update() that does nothing.
UpdateNoOp ==
  /\ buzzer' = buzzer
  /\ ledc' = ledc
  /\ emitted' = <<>>

\* C11, as stated: an update while playing, with the clock reading less than
\* noteStartTime and the current note of non-zero duration, takes the elapsed
\* time as zero: the index does not advance, nothing is written and nothing
\* of the object changes.
C11_StaleTimestampClamp ==
  [][ ( /\ lastOp' = "update"
        /\ buzzer.isPlaying
        /\ U32Lt(millis, buzzer.noteStartTime)
        /\ CurrentNote.duration > 0 )
      => UpdateNoOp ]_vars

\* C11, amended: there is no clamp.  An update while playing, with the clock
\* reading less than noteStartTime (the clock has wrapped since the note
\* began) and the current note of non-zero duration, takes the difference
\* modulo 2^32 as the elapsed time: it does nothing exactly when that
\* difference is less than the duration, and otherwise advances and writes
\* to the channel.
C11_NoClampModularElapsed ==
  [][ ( /\ lastOp' = "update"
        /\ buzzer.isPlaying
        /\ U32Lt(millis, buzzer.noteStartTime)
        /\ CurrentNote.duration > 0 )
      => IF U32GeU16(U32Sub(millis, buzzer.noteStartTime), CurrentNote.duration)
         THEN /\ emitted' # <<>>
              /\ buzzer' # buzzer
              /\ buzzer'.isPlaying => buzzer'.noteStartTime = millis
         ELSE UpdateNoOp ]_vars

\* C11 witness: a pattern was started before the clock wrapped, and the
\* first update that advanced it ran after the wrap, when the clock read
\* less than noteStartTime.
C11_Witness ==
  /\ lastOp = "update"
  /\ ~cancelled
  /\ emitted # <<>>
  /\ Len(played) = 2
  /\ Table(argPattern)[1].duration > 0
  /\ StartClock[1] = Half - 1
  /\ millis[1] = 0

\* The table has no end marker.
HasNoEndMarker(p) == \A k \in 1..Len(Table(p)) : ~IsEndMarker(Table(p)[k])

\* The indices at which an update() at the present time reads currentPattern.
IndicesUpdateReads ==
  IF UpdateReturnsEarly(buzzer) THEN {}
  ELSE IF ~DurationElapsed(buzzer, millis) THEN {buzzer.patternIndex}
  ELSE {buzzer.patternIndex, Incr(buzzer.patternIndex)}
       \cup (IF /\ IsEndMarker(NoteAt(buzzer.currentPattern,
                                      Incr(buzzer.patternIndex)))
                /\ buzzer.repeat
             THEN {0} ELSE {})

\* C12: while a table without end marker plays, no update reads an entry
\* past the last entry of the table, and the update that finds the last
\* entry's duration elapsed ends the playback, or goes back to note 0 when
\* repeating.
C12_MalformedPatternGuard ==
  [][ ( /\ lastOp' = "update"
        /\ buzzer.isPlaying
        /\ HasNoEndMarker(buzzer.currentPattern) )
      => /\ \A i \in IndicesUpdateReads : InTable(buzzer.currentPattern, i)
         /\ ( /\ DurationElapsed(buzzer, millis)
              /\ ~InTable(buzzer.currentPattern, Incr(buzzer.patternIndex)) )
            => IF buzzer.repeat
               THEN buzzer'.isPlaying /\ buzzer'.patternIndex = 0
               ELSE ~buzzer'.isPlaying ]_vars

\* C13: for a note that began before the clock wrapped, an update, before or
\* after the wrap, advances exactly when the milliseconds that have really
\* passed since the note began have reached its duration: not earlier, and
\* not later than the first update from then on.
C13_WraparoundTolerance ==
  [][ ( /\ lastOp' = "update"
        /\ buzzer.isPlaying
        /\ buzzer.noteStartTime[1] = Half - 1 )
      => IF upMs - noteMs >= CurrentNote.duration
         THEN /\ emitted' # <<>>
              /\ ~buzzer'.isPlaying \/ noteMs' = upMs
              /\ \/ ~buzzer'.isPlaying
                 \/ buzzer'.patternIndex = buzzer.patternIndex + 1
                 \/ buzzer'.patternIndex = 0
         ELSE UpdateNoOp /\ noteMs' = noteMs ]_vars

\* C13 witness: a pattern started 2 ms before the wrap and polled in every
\* millisecond has left its first note, of 2 ms, in the update at clock 0.
C13_Witness ==
  /\ lastOp = "update"
  /\ ~cancelled
  /\ pollGap = 0
  /\ argPattern = "PAT_TONES"
  /\ buzzer.patternIndex = 1
  /\ SinceStart = Table(argPattern)[1].duration
  /\ StartClock = <<Half - 1, Half - 2>>
  /\ millis = <<0, 0>>

\* The note after the current one.
FollowingNote == NoteAt(buzzer.currentPattern, buzzer.patternIndex + 1)

\* C14: an update while a note of duration d plays, the clock reading now
\* and the note begun at noteStartTime: with now - noteStartTime < d it
\* writes nothing and changes nothing; with now - noteStartTime >= d it
\* advances: to the following note, written to the channel and begun at
\* now, or, the following entry being the end marker, to silence and idle
\* (to note 0 when repeating).
C14_InclusiveBoundary ==
  [][ (lastOp' = "update" /\ buzzer.isPlaying)
      => IF U32Lt(U32Sub(millis, buzzer.noteStartTime),
                  <<0, CurrentNote.duration>>)
         THEN UpdateNoOp
         ELSE IF ~IsEndMarker(FollowingNote)
              THEN /\ buzzer'.isPlaying
                   /\ buzzer'.patternIndex = buzzer.patternIndex + 1
                   /\ buzzer'.noteStartTime = millis
                   /\ emitted' = CommandsOf(FollowingNote)
              ELSE IF buzzer.repeat
                   THEN /\ buzzer'.isPlaying
                        /\ buzzer'.patternIndex = 0
                        /\ buzzer'.noteStartTime = millis
                   ELSE /\ ~buzzer'.isPlaying
                        /\ emitted' = Silence ]_vars

\* C14 witness: the tone, pause, tone pattern, started without repeat, has
\* ended in an update exactly the sum of its durations after the start:
\* every one of its notes was left by an update at the very millisecond its
\* duration was reached.
C14_Witness ==
  /\ lastOp = "update"
  /\ ~cancelled
  /\ argPattern = "PAT_TONES"
  /\ ~argRepeat
  /\ prevActive
  /\ ~isActive
  /\ emitted = Silence
  /\ SinceStart = TotalDuration(argPattern)

\* C15: the buzzer is idle after construction; an update on an idle buzzer
\* (never started, stopped, or come to its end) writes nothing and changes
\* nothing; and an idle buzzer becomes active by playPattern only.
C15_IdlePollIsNoOp ==
  [][ /\ lastOp = "boot" => ~buzzer.isPlaying
      /\ ~buzzer.isPlaying
         => /\ lastOp' = "update" => UpdateNoOp
            /\ buzzer'.isPlaying => lastOp' = "play" ]_vars

\* C15 witness: an update has run on a buzzer that had come to the end of
\* its pattern by itself, later than the last note's duration after that.
C15_Witness ==
  /\ lastOp = "update"
  /\ ~prevActive
  /\ ~isActive
  /\ argPattern # Null
  /\ ~cancelled
  /\ emitted = <<>>
  /\ DurationElapsed(buzzer, millis)

\* C16: whatever the table, the flag and the time that has passed, one
\* update makes at most one advance: the index stays, goes up by one or goes
\* back to 0, and at most one note (or the silence of the end) is written to
\* the channel.
C16_PollAdvancesAtMostOnce ==
  [][ lastOp' = "update"
      => /\ buzzer'.patternIndex
              \in {buzzer.patternIndex, Incr(buzzer.patternIndex), 0}
         /\ \/ emitted' = <<>>
            \/ emitted' = Silence
            \/ emitted' = CommandsOf(NoteAt(buzzer.currentPattern,
                                            buzzer'.patternIndex))
         /\ Len(played') <= Len(played) + 1 ]_vars

\* C16 witness: a repeating pattern whose notes all have duration 0 has been
\* taken through more than one round by updates in the very millisecond it
\* was started in, one note for each update.
C16_Witness ==
  /\ lastOp = "update"
  /\ argPattern = "PAT_ZERO"
  /\ argRepeat
  /\ ~cancelled
  /\ SinceStart = 0
  /\ Len(played) > Len(Table(argPattern))

\* The step is an update() that takes the following entry for the end of
\* the pattern: back to note 0 when repeating, idle and silent otherwise.
TakenAsEnd ==
  IF buzzer.repeat
  THEN /\ buzzer'.isPlaying
       /\ buzzer'.patternIndex = 0
       /\ emitted' = CommandsOf(NoteAt(buzzer.currentPattern, 0))
  ELSE /\ ~buzzer'.isPlaying
       /\ emitted' = Silence

\* The step is an update() that plays the following entry as a note.
TakenAsNote ==
  /\ buzzer'.isPlaying
  /\ buzzer'.patternIndex = buzzer.patternIndex + 1
  /\ emitted' = CommandsOf(FollowingNote)

\* C17, as stated: the update that leaves a note takes the following entry
\* for the end of the pattern exactly when its duration, its frequency and
\* its volume are all 0, and plays it as a note otherwise.
C17_TerminatorAllZero ==
  [][ ( /\ lastOp' = "update"
        /\ buzzer.isPlaying
        /\ DurationElapsed(buzzer, millis) )
      => IF /\ FollowingNote.duration = 0
            /\ FollowingNote.frequency = 0
            /\ FollowingNote.volume = 0
         THEN TakenAsEnd
         ELSE TakenAsNote ]_vars

\* C17, amended: the update that leaves a note takes the following entry
\* for the end of the pattern exactly when its duration and its frequency
\* are both 0, whatever its volume; an entry of frequency 0 and non-zero
\* duration is played as a pause, and an entry of duration 0 and non-zero
\* frequency is played as a note.
C17_TerminatorFrequencyAndDuration ==
  [][ ( /\ lastOp' = "update"
        /\ buzzer.isPlaying
        /\ DurationElapsed(buzzer, millis) )
      => IF FollowingNote.duration = 0 /\ FollowingNote.frequency = 0
         THEN TakenAsEnd
         ELSE TakenAsNote ]_vars

\* C17 witness: a pattern whose second entry has frequency 0, duration 0 and
\* volume 64 has ended at that entry.
C17_Witness ==
  /\ lastOp = "update"
  /\ argPattern = "PAT_MUTE"
  /\ ~argRepeat
  /\ ~cancelled
  /\ prevActive
  /\ ~isActive
  /\ buzzer.patternIndex = 1
  /\ Table(argPattern)[2].volume > 0

\* The table has at least one note, then its end marker, and no end marker
\* before that.
ValidPattern(p) ==
  /\ p # Null
  /\ Len(Table(p)) >= 2
  /\ \A k \in 1..Len(Table(p)) : IsEndMarker(Table(p)[k]) <=> k = Len(Table(p))

\* C18: between the calls, whenever the buzzer is active on a valid table,
\* patternIndex is the index of an entry of the table that is not the end
\* marker.
C18_IndexOnPlayableNote ==
  (isActive /\ ValidPattern(buzzer.currentPattern))
  => /\ InTable(buzzer.currentPattern, buzzer.patternIndex)
     /\ ~IsEndMarker(Table(buzzer.currentPattern)[buzzer.patternIndex + 1])

\* C18 witness: updates have taken a valid table of several notes to its
\* last note, the one before the end marker, and it is still playing.
C18_Witness ==
  /\ lastOp = "update"
  /\ isActive
  /\ ValidPattern(buzzer.currentPattern)
  /\ buzzer.patternIndex > 0
  /\ buzzer.patternIndex = Len(Table(buzzer.currentPattern)) - 2
  /\ emitted # <<>>

\* C19: a playPattern with a table whose first entry is the end marker
\* leaves the buzzer idle, with tone 0 and duty 0 written, in that call; and
\* no update afterwards reads an entry of that table other than the first.
C19_EmptyPatternEndsAtOnce ==
  [][ /\ ( /\ lastOp' = "play"
           /\ IsEndMarker(Table(argPattern')[1]) )
         => /\ ~buzzer'.isPlaying
            /\ emitted' = Silence
      /\ ( /\ lastOp' = "update"
           /\ buzzer.currentPattern # Null
           /\ IsEndMarker(Table(buzzer.currentPattern)[1]) )
         => IndicesUpdateReads \subseteq {0} ]_vars

\* The number of notes of a table before its end marker.
NotesIn(p) == Len(Table(p)) - 1

----------------------------------------------------------------------------
(* C21..C28 *)

\* C21: an update that writes to the channel while a note plays (the
\* following note, note 0 again, or the silence of the end) runs no less
\* than that note's duration after the call that wrote the note, however
\* late that call itself was.
C21_DurationIsMinimum ==
  [][ ( /\ lastOp' = "update"
        /\ buzzer.isPlaying
        /\ emitted' # <<>> )
      => upMs - noteMs >= CurrentNote.duration ]_vars

\* C21 witness: the third note of the tone, pause, tone pattern has been
\* written later than the first two durations after the start: an earlier
\* update was late.
C21_Witness ==
  /\ lastOp = "update"
  /\ ~cancelled
  /\ argPattern = "PAT_TONES"
  /\ buzzer.patternIndex = 2
  /\ emitted = CommandsOf(Table(argPattern)[3])
  /\ SinceStart > DurationOfFirst(argPattern, 2)

\* The channel carries the note at patternIndex.
ChannelCarriesCurrentNote ==
  IF CurrentNote.frequency > 0
  THEN ledc.tone = CurrentNote.frequency /\ ledc.duty = CurrentNote.volume
  ELSE ledc.duty = 0

\* C22: after every operation of the sketch (an update, a serial command,
\* the custom tone test among them), the channel carries the current note
\* while the buzzer is active, and duty 0 while it is idle.
C22_SinkConsistency ==
  IF isActive THEN ChannelCarriesCurrentNote ELSE ledc.duty = 0

\* C23: while a valid table plays, whatever its length, an update that
\* leaves a note goes to the entry one further in the table, and treats it
\* as the end when that entry is the end marker at the end of the table:
\* patternIndex never goes back to an earlier note before the end marker
\* has been reached.
C23_CursorNeverWraps ==
  [][ ( /\ lastOp' = "update"
        /\ buzzer.isPlaying
        /\ ValidPattern(buzzer.currentPattern)
        /\ DurationElapsed(buzzer, millis) )
      => IF buzzer.patternIndex + 1 = NotesIn(buzzer.currentPattern)
         THEN TakenAsEnd
         ELSE /\ buzzer'.isPlaying
              /\ buzzer'.patternIndex = buzzer.patternIndex + 1 ]_vars

\* The menu item selected after the step.
SelectedItemAfter == menuItems[menu'.selectedItem + 1]

\* C24: in handleButtons(), OK while a pattern plays stops it and does
\* nothing else to the buzzer; OK while idle starts the selected item's
\* pattern with that item's repeat flag; LEFT and RIGHT while a pattern plays
\* change neither the menu nor the buzzer; so handleButtons() never leaves
\* a pattern started in that call when one was playing before it.
C24_OkTogglesNavigationLocked ==
  [][ lastOp' = "buttons"
      => /\ ("OK" \in fell' /\ buzzer.isPlaying)
            => /\ buzzer' = StopFn(buzzer).b
               /\ ~buzzer'.isPlaying
               /\ ledc' = SilentChannel
         /\ ("OK" \in fell' /\ ~buzzer.isPlaying)
            => /\ buzzer'.isPlaying
               /\ buzzer'.currentPattern = SelectedItemAfter.pattern
               /\ buzzer'.repeat = SelectedItemAfter.repeat
               /\ buzzer'.currentName = SelectedItemAfter.name
               /\ buzzer'.patternIndex = 0
         /\ buzzer.isPlaying
            => /\ menu' = menu
               /\ "OK" \notin fell' => (buzzer' = buzzer /\ ledc' = ledc)
               /\ buzzer'.isPlaying => buzzer' = buzzer
               /\ argPattern' = argPattern /\ startMs' = startMs ]_vars

\* C24 witness: OK, pressed together with RIGHT while the repeating item was
\* playing, has stopped it and left the menu on that item.
C24_Witness ==
  /\ lastOp = "buttons"
  /\ fell = {"OK", "RIGHT"}
  /\ prevActive
  /\ ~isActive
  /\ argRepeat
  /\ menuItems[menu.selectedItem + 1].pattern = argPattern

\* The selected item is an item of the menu, inside the window shown.
CursorInWindow(m) ==
  /\ 0 <= m.selectedItem /\ m.selectedItem < MENU_COUNT
  /\ 0 <= m.scrollOffset
  /\ m.scrollOffset <= MENU_COUNT - MAX_VISIBLE_ITEMS
  /\ m.scrollOffset <= m.selectedItem
  /\ m.selectedItem < m.scrollOffset + MAX_VISIBLE_ITEMS

\* C25: before and after every handleButtons(), selectedItem is an index of
\* the menu, scrollOffset is between 0 and MENU_COUNT - MAX_VISIBLE_ITEMS,
\* and the selected item is one of the MAX_VISIBLE_ITEMS items shown from
\* scrollOffset on; LEFT alone on the first item, the buzzer idle, selects
\* the last, and RIGHT alone on the last selects the first.
C25_MenuCursorInWindow ==
  [][ /\ CursorInWindow(menu)
      /\ CursorInWindow(menu')
      /\ ( /\ lastOp' = "buttons"
           /\ ~buzzer.isPlaying
           /\ fell' = {"LEFT"}
           /\ menu.selectedItem = 0 )
         => menu'.selectedItem = MENU_COUNT - 1
      /\ ( /\ lastOp' = "buttons"
           /\ ~buzzer.isPlaying
           /\ fell' = {"RIGHT"}
           /\ menu.selectedItem = MENU_COUNT - 1 )
         => menu'.selectedItem = 0 ]_vars

\* C25 witness: LEFT on the first item has selected the last, and the window
\* has moved to show it.
C25_Witness ==
  /\ lastOp = "buttons"
  /\ fell = {"LEFT"}
  /\ menu.selectedItem = MENU_COUNT - 1
  /\ menu.scrollOffset = MENU_COUNT - MAX_VISIBLE_ITEMS
  /\ menu.scrollOffset > 0

\* C26: a reconnect attempt is made only while ethConnected is false, more
\* than RECONNECT_DELAY after the attempt before it, and leaves
\* reconnectAttempts one higher than it was; ETH_GOT_IP sets
\* reconnectAttempts to 0.
C26_ReconnectThrottling ==
  [][ /\ (lastOp' = "ntpLoop" /\ seen'.began) =>
           /\ ~state.ethConnected
           /\ seen.attemptMs >= 0 =>
                upMs - seen.attemptMs > RECONNECT_DELAY
           /\ state'.reconnectAttempts = state.reconnectAttempts + 1
      /\ (lastOp' = "ethEvent" /\ seen'.event = "ETH_GOT_IP") =>
           state'.reconnectAttempts = 0 ]_vars

\* C27: when loop() draws the info bar and the bottom bar again, exactly 10
\* display updates have happened since it last drew them, this one counted.
C27_TenTicksBetweenRedraws ==
  (seen.redrew /\ seen.redraws >= 2) => seen.spacing = 10

\* C28: signalQuality is 3 when ethConnected is true and -1 when it is
\* false; ethConnected is true exactly when the last of the GOT_IP,
\* DISCONNECTED and STOP events was GOT_IP; START and CONNECTED leave the
\* SystemState as it was.
C28_LinkStateInvariant ==
  [][ /\ state'.signalQuality = IF state'.ethConnected THEN 3 ELSE -1
      /\ state'.ethConnected <=> seen'.link = "ETH_GOT_IP"
      /\ (lastOp' = "ethEvent"
            /\ seen'.event \in {"ETH_START", "ETH_CONNECTED"}) =>
           state' = state ]_vars

\* The link came up after a reconnect attempt, went down with ETH_STOP, and
\* an ETH_CONNECTED event has been delivered since.
C28_Witness ==
  /\ lastOp = "ethEvent"
  /\ seen.event = "ETH_CONNECTED"
  /\ seen.link = "ETH_STOP"
  /\ seen.attemptMs >= 0
  /\ state.reconnectAttempts = 0
  /\ ~state.ethConnected
  /\ state.signalQuality = -1

====
